---- MODULE Spec2Model ----
(***************************************************************************)
(* Model of c_art_2_volume_changes (src/src/lib.rs, src/src/main.rs).      *)
(*                                                                         *)
(* f64 values are modelled as the extended rationals: NaN, +inf, -inf and  *)
(* exact fractions num/den in lowest terms.  Rounding, overflow of finite  *)
(* values and the sign of zero are not modelled.  A square root that is    *)
(* not rational is kept symbolically (k = "sqrt", the root of num/den).    *)
(* Option<T> is a sequence of length 0 (None) or 1 (Some).  Strings that   *)
(* are compared for order are sequences of byte values.                    *)
(***************************************************************************)
EXTENDS Integers, Sequences, FiniteSets, TLC

(* ------------------------------ f64 ----------------------------------- *)

Abs(i) == IF i < 0 THEN -i ELSE i

RECURSIVE GCD(_, _)
GCD(a, b) == IF b = 0 THEN a ELSE GCD(b, a % b)

NaN  == [k |-> "nan",  num |-> 0, den |-> 1]
PInf == [k |-> "pinf", num |-> 0, den |-> 1]
NInf == [k |-> "ninf", num |-> 0, den |-> 1]

\* the finite value num/den (den > 0), in lowest terms
Fin(num, den) ==
    LET g == GCD(Abs(num), den)
    IN [k |-> "fin", num |-> num \div g, den |-> den \div g]

F(i)    == Fin(i, 1)
Zero    == F(0)

is_nan(x) == x.k = "nan"
IsInf(x)  == x.k \in {"pinf", "ninf"}
IsFin(x)  == x.k = "fin"

\* sign of a non-NaN value: -1, 0, 1
Sgn(x) == CASE x.k = "pinf" -> 1
            [] x.k = "ninf" -> -1
            [] OTHER -> IF x.num > 0 THEN 1 ELSE IF x.num < 0 THEN -1 ELSE 0

InfOfSign(s) == IF s > 0 THEN PInf ELSE NInf

FNeg(x) == CASE x.k = "pinf" -> NInf
             [] x.k = "ninf" -> PInf
             [] x.k = "fin"  -> Fin(-x.num, x.den)
             [] OTHER -> x

FAdd(a, b) ==
    CASE is_nan(a) \/ is_nan(b) -> NaN
      [] IsInf(a) /\ IsInf(b) -> IF a.k = b.k THEN a ELSE NaN
      [] IsInf(a) -> a
      [] IsInf(b) -> b
      [] OTHER -> Fin(a.num * b.den + b.num * a.den, a.den * b.den)

FSub(a, b) == FAdd(a, FNeg(b))

FDiv(a, b) ==
    CASE is_nan(a) \/ is_nan(b) -> NaN
      [] IsInf(a) /\ IsInf(b) -> NaN
      [] IsInf(a) -> InfOfSign(Sgn(a) * (IF Sgn(b) < 0 THEN -1 ELSE 1))
      [] IsInf(b) -> Zero
      [] b.num = 0 -> IF a.num = 0 THEN NaN ELSE InfOfSign(Sgn(a))
      [] OTHER -> IF b.num > 0 THEN Fin(a.num * b.den, a.den * b.num)
                  ELSE Fin(-(a.num * b.den), a.den * (-b.num))

\* f64::powf(x, 2.0)
powf2(x) ==
    CASE is_nan(x) -> NaN
      [] IsInf(x) -> PInf
      [] OTHER -> Fin(x.num * x.num, x.den * x.den)

IsSquare(i) == \E r \in 0..i : r * r = i
Root(i)     == CHOOSE r \in 0..i : r * r = i

\* f64::sqrt
sqrt(x) ==
    CASE is_nan(x) -> NaN
      [] x.k = "pinf" -> PInf
      [] x.k = "ninf" -> NaN
      [] x.num < 0 -> NaN
      [] IsSquare(x.num) /\ IsSquare(x.den) -> Fin(Root(x.num), Root(x.den))
      [] OTHER -> [k |-> "sqrt", num |-> x.num, den |-> x.den]

\* Iterator::sum::<f64>() : left fold of + from 0
RECURSIVE sum(_)
sum(s) == IF s = <<>> THEN Zero ELSE FAdd(sum(SubSeq(s, 1, Len(s) - 1)), s[Len(s)])

(* ----------------------------- Option --------------------------------- *)

None      == <<>>
Some(x)   == <<x>>
is_some(o) == Len(o) = 1
unwrap(o)  == o[1]
unwrap_or(o, d) == IF is_some(o) THEN o[1] ELSE d

(* ---------------------- avg_std_dev_from_vectors ---------------------- *)

Ok(v)  == [ok |-> TRUE,  val |-> v]
Err(e) == [ok |-> FALSE, val |-> e]

\* zip + filter_map (both present -> difference) + filter (not NaN)
RECURSIVE Differences(_, _)
Differences(a, b) ==
    IF a = <<>> \/ b = <<>> THEN <<>>
    ELSE LET o1 == Head(a)
             o2 == Head(b)
             rest == Differences(Tail(a), Tail(b))
         IN IF is_some(o1) /\ is_some(o2)
            THEN LET d == FSub(unwrap(o1), unwrap(o2))
                 IN IF ~is_nan(d) THEN <<d>> \o rest ELSE rest
            ELSE rest

SqDev(v, avg) == [i \in 1..Len(v) |-> powf2(FSub(v[i], avg))]

\* variant: no length check, the zip stops at the shorter vector
avg_std_dev_no_check(a, b) ==
    LET v   == Differences(a, b)
        n   == F(Len(v))
        avg == FDiv(sum(v), n)
        std_dev == sqrt(FDiv(sum(SqDev(v, avg)), FSub(n, F(1))))
    IN Ok([avg |-> avg, std_dev |-> std_dev, n |-> Len(v)])

\* variant: the difference taken as v2 - v1
avg_std_dev_swapped(a, b) ==
    LET n0 == Len(a)
        m  == Len(b)
    IN IF n0 # m
       THEN Err([kind |-> "LengthMismatch", n |-> n0, m |-> m])
       ELSE LET v   == Differences(b, a)
                n   == F(Len(v))
                avg == FDiv(sum(v), n)
                std_dev == sqrt(FDiv(sum(SqDev(v, avg)), FSub(n, F(1))))
            IN Ok([avg |-> avg, std_dev |-> std_dev, n |-> Len(v)])

avg_std_dev_from_vectors(a, b) ==
    LET n0 == Len(a)
        m  == Len(b)
    IN IF n0 # m
       THEN Err([kind |-> "LengthMismatch", n |-> n0, m |-> m])
       ELSE LET v   == Differences(a, b)
                n   == F(Len(v))
                avg == FDiv(sum(v), n)
                std_dev == sqrt(FDiv(sum(SqDev(v, avg)), FSub(n, F(1))))
            IN Ok([avg |-> avg, std_dev |-> std_dev, n |-> Len(v)])

(* ------------------------------- Data --------------------------------- *)

\* ROI names as byte strings
GTV    == <<71, 84, 86>>
GTV_N  == <<71, 84, 86, 95, 78>>
PTV_DP == <<80, 84, 86, 95, 68, 80>>
RoiNames == {GTV, GTV_N, PTV_DP}

Data_new(name) ==
    [roi_name |-> name, vol_phase_1 |-> <<>>, vol_phase_2 |-> <<>>, vol_phase_3 |-> <<>>]

\* variant: phase 1 is pushed before the other two values are looked at
add_vol_early_push(self, a1, a2, a3) ==
    LET x1 == unwrap_or(a1, NaN)
        x2 == unwrap_or(a2, NaN)
        x3 == unwrap_or(a3, NaN)
    IN IF is_nan(x1) THEN self
       ELSE IF is_nan(x2) \/ is_nan(x3)
       THEN [self EXCEPT !.vol_phase_1 = Append(@, Some(x1))]
       ELSE [self EXCEPT !.vol_phase_1 = Append(@, Some(x1)),
                         !.vol_phase_2 = Append(@, Some(x2)),
                         !.vol_phase_3 = Append(@, Some(x3))]

\* variant: the third value is not tested
add_vol_skip_v3(self, a1, a2, a3) ==
    LET x1 == unwrap_or(a1, NaN)
        x2 == unwrap_or(a2, NaN)
        x3 == unwrap_or(a3, NaN)
    IN IF is_nan(x1) \/ is_nan(x2)
       THEN self
       ELSE [self EXCEPT !.vol_phase_1 = Append(@, Some(x1)),
                         !.vol_phase_2 = Append(@, Some(x2)),
                         !.vol_phase_3 = Append(@, Some(x3))]

\* variant: the triple is inserted at the front
add_vol_prepend(self, a1, a2, a3) ==
    LET x1 == unwrap_or(a1, NaN)
        x2 == unwrap_or(a2, NaN)
        x3 == unwrap_or(a3, NaN)
    IN IF is_nan(x1) \/ is_nan(x2) \/ is_nan(x3)
       THEN self
       ELSE [self EXCEPT !.vol_phase_1 = <<Some(x1)>> \o @,
                         !.vol_phase_2 = <<Some(x2)>> \o @,
                         !.vol_phase_3 = <<Some(x3)>> \o @]

add_vol(self, a1, a2, a3) ==
    LET x1 == unwrap_or(a1, NaN)
        x2 == unwrap_or(a2, NaN)
        x3 == unwrap_or(a3, NaN)
    IN IF is_nan(x1) \/ is_nan(x2) \/ is_nan(x3)
       THEN self
       ELSE [self EXCEPT !.vol_phase_1 = Append(@, Some(x1)),
                         !.vol_phase_2 = Append(@, Some(x2)),
                         !.vol_phase_3 = Append(@, Some(x3))]

\* variant: phase 3 is not cleared
clear_partial(self) ==
    [self EXCEPT !.vol_phase_1 = <<>>, !.vol_phase_2 = <<>>]

clear(self) ==
    [self EXCEPT !.vol_phase_1 = <<>>, !.vol_phase_2 = <<>>, !.vol_phase_3 = <<>>]

UnwrapOrNaN(s) == [i \in 1..Len(s) |-> unwrap_or(s[i], NaN)]

MkStat(self, avg_vol, ps, pe, r) ==
    [roi_name |-> self.roi_name, avg_vol_phase_start |-> avg_vol,
     phase_start |-> ps, phase_end |-> pe,
     avg |-> r.avg, std_dev |-> r.std_dev, n |-> r.n]

\* variant: the differences are taken as phase 2 - phase 1
phase_1_to_2_stat_reversed(self) ==
    LET avg_vol == FDiv(sum(UnwrapOrNaN(self.vol_phase_1)), F(Len(self.vol_phase_1)))
        r == avg_std_dev_from_vectors(self.vol_phase_2, self.vol_phase_1)
    IN IF ~r.ok THEN r ELSE Ok(MkStat(self, avg_vol, 1, 2, r.val))

\* variant: the starting volume is averaged over phase 2
phase_1_to_2_stat_end_volume(self) ==
    LET avg_vol == FDiv(sum(UnwrapOrNaN(self.vol_phase_2)), F(Len(self.vol_phase_1)))
        r == avg_std_dev_from_vectors(self.vol_phase_1, self.vol_phase_2)
    IN IF ~r.ok THEN r ELSE Ok(MkStat(self, avg_vol, 1, 2, r.val))

phase_1_to_2_stat(self) ==
    LET avg_vol == FDiv(sum(UnwrapOrNaN(self.vol_phase_1)), F(Len(self.vol_phase_1)))
        r == avg_std_dev_from_vectors(self.vol_phase_1, self.vol_phase_2)
    IN IF ~r.ok THEN r ELSE Ok(MkStat(self, avg_vol, 1, 2, r.val))

phase_2_to_3_stat(self) ==
    LET avg_vol == FDiv(sum(UnwrapOrNaN(self.vol_phase_2)), F(Len(self.vol_phase_1)))
        r == avg_std_dev_from_vectors(self.vol_phase_2, self.vol_phase_3)
    IN IF ~r.ok THEN r ELSE Ok(MkStat(self, avg_vol, 2, 3, r.val))

(* ------------------------------ Record -------------------------------- *)

MkRecord(id, g, gn, p) ==
    [patient_id |-> id,
     gtv_phase_i |-> g[1], gtv_phase_ii |-> g[2], gtv_phase_iii |-> g[3],
     gtv_n_phase_i |-> gn[1], gtv_n_phase_ii |-> gn[2], gtv_n_phase_iii |-> gn[3],
     ptv_dp_phase_i |-> p[1], ptv_dp_phase_ii |-> p[2], ptv_dp_phase_iii |-> p[3]]

\* the loop of records_to_data: the three accumulators after the first k records
RECURSIVE RecordsLoop(_, _)
RecordsLoop(recs, k) ==
    IF k = 0 THEN <<Data_new(GTV), Data_new(GTV_N), Data_new(PTV_DP)>>
    ELSE LET acc == RecordsLoop(recs, k - 1)
             record == recs[k]
         IN <<add_vol(acc[1], record.gtv_phase_i, record.gtv_phase_ii, record.gtv_phase_iii),
              add_vol(acc[2], record.gtv_n_phase_i, record.gtv_n_phase_ii, record.gtv_n_phase_iii),
              add_vol(acc[3], record.ptv_dp_phase_i, record.ptv_dp_phase_ii, record.ptv_dp_phase_iii)>>

\* variant: GTV_N is fed the GTV columns
RECURSIVE RecordsLoopPasted(_, _)
RecordsLoopPasted(recs, k) ==
    IF k = 0 THEN <<Data_new(GTV), Data_new(GTV_N), Data_new(PTV_DP)>>
    ELSE LET acc == RecordsLoopPasted(recs, k - 1)
             record == recs[k]
         IN <<add_vol(acc[1], record.gtv_phase_i, record.gtv_phase_ii, record.gtv_phase_iii),
              add_vol(acc[2], record.gtv_phase_i, record.gtv_phase_ii, record.gtv_phase_iii),
              add_vol(acc[3], record.ptv_dp_phase_i, record.ptv_dp_phase_ii, record.ptv_dp_phase_iii)>>

records_to_data_pasted(recs) == RecordsLoopPasted(recs, Len(recs))

records_to_data(recs) == RecordsLoop(recs, Len(recs))

(* ------------------------------- Stat --------------------------------- *)

IntCmp(a, b) == IF a < b THEN "Less" ELSE IF a > b THEN "Greater" ELSE "Equal"

\* str::cmp : lexicographic on bytes
RECURSIVE StrCmp(_, _)
StrCmp(a, b) ==
    IF a = <<>> /\ b = <<>> THEN "Equal"
    ELSE IF a = <<>> THEN "Less"
    ELSE IF b = <<>> THEN "Greater"
    ELSE IF Head(a) # Head(b) THEN IntCmp(Head(a), Head(b))
    ELSE StrCmp(Tail(a), Tail(b))

\* variant: the phases are compared before the ROI name
cmp_phase_first(self, other) ==
    LET o1 == IntCmp(self.phase_start, other.phase_start)
        o2 == IntCmp(self.phase_end, other.phase_end)
    IN IF o1 # "Equal" THEN o1
       ELSE IF o2 # "Equal" THEN o2
       ELSE StrCmp(self.roi_name, other.roi_name)

cmp(self, other) ==
    LET o1 == StrCmp(self.roi_name, other.roi_name)
        o2 == IntCmp(self.phase_start, other.phase_start)
    IN IF o1 # "Equal" THEN o1
       ELSE IF o2 # "Equal" THEN o2
       ELSE IntCmp(self.phase_end, other.phase_end)

\* x placed after every element that does not compare Greater than it
RECURSIVE InsertSorted(_, _)
InsertSorted(s, x) ==
    IF s = <<>> THEN <<x>>
    ELSE IF cmp(Head(s), x) = "Greater" THEN <<x>> \o s
    ELSE <<Head(s)>> \o InsertSorted(Tail(s), x)

\* Vec::sort : stable sort by Ord
RECURSIVE sort(_)
sort(s) == IF s = <<>> THEN <<>>
           ELSE InsertSorted(sort(SubSeq(s, 1, Len(s) - 1)), s[Len(s)])

add_data(st, d) ==
    LET r1 == phase_1_to_2_stat(d)
        r2 == phase_2_to_3_stat(d)
    IN IF ~r1.ok THEN r1
       ELSE IF ~r2.ok THEN r2
       ELSE Ok(st \o <<r1.val, r2.val>>)

\* the loop of dataset_to_stats over the first k accumulators
RECURSIVE StatsLoop(_, _)
StatsLoop(ds, k) ==
    IF k = 0 THEN Ok(<<>>)
    ELSE LET r == StatsLoop(ds, k - 1)
         IN IF ~r.ok THEN r ELSE add_data(r.val, ds[k])

dataset_to_stats(ds) ==
    LET r == StatsLoop(ds, Len(ds))
    IN IF ~r.ok THEN r ELSE Ok(sort(r.val))

(* ------------------------------ bounds -------------------------------- *)

\* add_vol calls modelled between two resets (new / clear) of an accumulator
MaxCalls == 2
\* longest vector handed to avg_std_dev_from_vectors directly
MaxVecLen == 3
\* longest list of input records
MaxRecords == 2
\* most data points per accumulator of a hand-built dataset
MaxRows == 2

(* ------------------------------ inputs -------------------------------- *)

SeqsUpTo(S, n) == UNION {[1..k -> S] : k \in 0..n}

T3(a, b, c) == <<a, b, c>>

\* arguments of add_vol: every mix of missing / NaN / finite, plus triples
\* with distinct finite values and with infinities
ArgOpts == {None, Some(NaN), Some(F(1))}
AddArgs == (ArgOpts \X ArgOpts \X ArgOpts)
           \cup {T3(Some(F(1)), Some(F(2)), Some(F(3))),
                 T3(Some(PInf), Some(PInf), Some(F(1))),
                 T3(Some(NInf), Some(F(1)), Some(PInf))}

\* elements of the vectors given to avg_std_dev_from_vectors
VecElems == {None, Some(NaN), Some(PInf), Some(F(1)), Some(F(3))}
Vecs     == SeqsUpTo(VecElems, MaxVecLen)

\* (phase 1, phase 2, phase 3) cells of an input row, per ROI
RowA == T3(Some(F(10)), Some(F(12)), Some(F(11)))
RowB == T3(Some(F(8)), Some(F(9)), Some(F(10)))
Missing == T3(None, None, None)
GtvCells   == {RowA, RowB, Missing, T3(Some(F(10)), None, Some(F(11)))}
GtvNCells  == {RowA, RowB, Missing, T3(Some(NaN), Some(F(9)), Some(PInf))}
PtvDpCells == {RowB, Missing, T3(Some(NInf), Some(F(8)), Some(F(9)))}
RowCells == GtvCells \X GtvNCells \X PtvDpCells
RecordLists ==
    {[i \in 1..Len(rows) |-> MkRecord(i, rows[i][1], rows[i][2], rows[i][3])] :
        rows \in SeqsUpTo(RowCells, MaxRecords)}

\* accumulators of a hand-built dataset: Data::new then add_vol per row
RowArgs == {T3(Some(F(10)), Some(F(12)), Some(F(11))),
            T3(Some(PInf), Some(PInf), Some(F(1)))}
RECURSIVE AddAll(_, _)
AddAll(d, rows) ==
    IF rows = <<>> THEN d
    ELSE AddAll(add_vol(d, rows[1][1], rows[1][2], rows[1][3]), Tail(rows))
Built(name) == {AddAll(Data_new(name), rows) : rows \in SeqsUpTo(RowArgs, MaxRows)}
Perms3 == {p \in [1..3 -> 1..3] : \A i, j \in 1..3 : i # j => p[i] # p[j]}
Datasets ==
    {[i \in 1..3 |-> <<g, gn, p>>[perm[i]]] :
        g \in Built(GTV), gn \in Built(GTV_N), p \in Built(PTV_DP), perm \in Perms3}

(* ------------------------------- state -------------------------------- *)

VARIABLES
    data,     \* an accumulator (Data)
    calls,    \* argument triples of the add_vol calls since the last new / clear
    last,     \* name of the last operation called on the accumulator
    res,      \* <<result>> of the last statistics call, <<>> otherwise
    v1, v2,   \* arguments of avg_std_dev_from_vectors
    out,      \* <<result>> of avg_std_dev_from_vectors, <<>> before the call
    records,  \* main: the records read
    dataset,  \* main: Vec<Data>
    stats,    \* main: <<result>> of dataset_to_stats, <<>> before the call
    pc        \* main: the next call

vars == <<data, calls, last, res, v1, v2, out, records, dataset, stats, pc>>

accVars  == <<data, calls, last, res>>
diffVars == <<v1, v2, out>>
mainVars == <<records, dataset, stats, pc>>

AccIdle  == data = Data_new(GTV) /\ calls = <<>> /\ last = "idle" /\ res = <<>>
DiffIdle == v1 = <<>> /\ v2 = <<>> /\ out = <<>>
MainIdle == records = <<>> /\ dataset = <<>> /\ stats = <<>> /\ pc = "idle"

(* ------------------- accumulator under arbitrary calls ---------------- *)

InitAcc ==
    /\ data \in {Data_new(name) : name \in RoiNames}
    /\ calls = <<>>
    /\ last = "new"
    /\ res = <<>>
    /\ DiffIdle /\ MainIdle

New(name) ==
    /\ last # "idle"
    /\ data' = Data_new(name)
    /\ calls' = <<>>
    /\ last' = "new"
    /\ res' = <<>>
    /\ UNCHANGED <<diffVars, mainVars>>

AddVol(t) ==
    /\ last # "idle"
    /\ Len(calls) < MaxCalls
    /\ data' = add_vol(data, t[1], t[2], t[3])
    /\ calls' = Append(calls, t)
    /\ last' = "add_vol"
    /\ res' = <<>>
    /\ UNCHANGED <<diffVars, mainVars>>

Clear ==
    /\ last # "idle"
    /\ data' = clear(data)
    /\ calls' = <<>>
    /\ last' = "clear"
    /\ res' = <<>>
    /\ UNCHANGED <<diffVars, mainVars>>

Phase1To2Stat ==
    /\ last # "idle"
    /\ res' = <<phase_1_to_2_stat(data)>>
    /\ last' = "phase_1_to_2_stat"
    /\ UNCHANGED <<data, calls, diffVars, mainVars>>

Phase2To3Stat ==
    /\ last # "idle"
    /\ res' = <<phase_2_to_3_stat(data)>>
    /\ last' = "phase_2_to_3_stat"
    /\ UNCHANGED <<data, calls, diffVars, mainVars>>

\* dataset_to_stats(&vec![data])
StatsOfOne ==
    /\ last # "idle"
    /\ res' = <<dataset_to_stats(<<data>>)>>
    /\ last' = "dataset_to_stats"
    /\ UNCHANGED <<data, calls, diffVars, mainVars>>

NextAcc ==
    \/ \E name \in RoiNames : New(name)
    \/ \E t \in AddArgs : AddVol(t)
    \/ Clear
    \/ Phase1To2Stat
    \/ Phase2To3Stat
    \/ StatsOfOne

SpecAcc == InitAcc /\ [][NextAcc]_vars

(* ------------------ avg_std_dev_from_vectors on any input ------------- *)

InitDiff ==
    /\ v1 \in Vecs
    /\ v2 \in Vecs
    /\ out = <<>>
    /\ AccIdle /\ MainIdle

Compute ==
    /\ out = <<>>
    /\ pc = "idle" /\ last = "idle"
    /\ out' = <<avg_std_dev_from_vectors(v1, v2)>>
    /\ UNCHANGED <<v1, v2, accVars, mainVars>>

NextDiff == Compute

SpecDiff == InitDiff /\ [][NextDiff]_vars

(* -------------------------------- main -------------------------------- *)

InitMain ==
    /\ records \in RecordLists
    /\ dataset = <<>>
    /\ stats = <<>>
    /\ pc = "records_to_data"
    /\ AccIdle /\ DiffIdle

RecordsToData ==
    /\ pc = "records_to_data"
    /\ dataset' = records_to_data(records)
    /\ pc' = "dataset_to_stats"
    /\ UNCHANGED <<records, stats, accVars, diffVars>>

DatasetToStats ==
    /\ pc = "dataset_to_stats"
    /\ stats' = <<dataset_to_stats(dataset)>>
    /\ pc' = "write"
    /\ UNCHANGED <<records, dataset, accVars, diffVars>>

NextMain == RecordsToData \/ DatasetToStats

SpecMain == InitMain /\ [][NextMain]_vars

(* ----------------- dataset_to_stats on a hand-built dataset ----------- *)

InitStats ==
    /\ records = <<>>
    /\ dataset \in Datasets
    /\ stats = <<>>
    /\ pc = "dataset_to_stats"
    /\ AccIdle /\ DiffIdle

NextStats == DatasetToStats

SpecStats == InitStats /\ [][NextStats]_vars

(* ============================== claims ================================ *)

Vols(d) == <<d.vol_phase_1, d.vol_phase_2, d.vol_phase_3>>

\* a triple add_vol must reject: some value missing or NaN
Disqualified(t) == \E i \in 1..3 : t[i] = None \/ t[i] = Some(NaN)
Qualified(t)    == ~Disqualified(t)

\* the i-th values of the qualified triples of ts, in the order of ts
Column(ts, i) ==
    LET q == SelectSeq(ts, Qualified)
    IN [j \in 1..Len(q) |-> q[j][i]]

T123 == T3(Some(F(1)), Some(F(2)), Some(F(3)))
TN11 == T3(None, Some(F(1)), Some(F(1)))

\* C1: in every state reached by Data::new, add_vol and clear calls the three
\* phase sequences of the accumulator have the same length.
C1_EqualLengths ==
    /\ Len(data.vol_phase_1) = Len(data.vol_phase_2)
    /\ Len(data.vol_phase_2) = Len(data.vol_phase_3)

\* an accepted and a rejected add_vol call have both been made
C1_Witness ==
    /\ last = "add_vol"
    /\ Len(calls) = 2
    /\ Len(data.vol_phase_1) = 1

\* the step of an add_vol call with a missing or NaN argument leaves data alone
C2_RejectedStep ==
    (last' = "add_vol" /\ Len(calls') = Len(calls) + 1
        /\ Disqualified(calls'[Len(calls')]))
    => data' = data

C2_Example ==
    (last = "add_vol" /\ calls = <<T123, TN11>>)
    => Vols(data) = << <<Some(F(1))>>, <<Some(F(2))>>, <<Some(F(3))>> >>

\* C2: an add_vol call with a missing or NaN argument changes neither the
\* phase sequences nor the ROI name; add(1,2,3) then add(None,1,1) on an empty
\* accumulator leaves exactly <<1>>, <<2>>, <<3>>.
C2_RejectedUnchanged == [][C2_RejectedStep]_vars /\ []C2_Example

C2_Witness ==
    /\ last = "add_vol"
    /\ calls = <<T123, TN11>>
    /\ Len(data.vol_phase_1) = 1

AllStored(P(_)) ==
    \A i \in 1..3 : \A j \in 1..Len(Vols(data)[i]) :
        is_some(Vols(data)[i][j]) /\ P(unwrap(Vols(data)[i][j]))

InOrderAdded == \A i \in 1..3 : Vols(data)[i] = Column(calls, i)

NotNaN(x) == ~is_nan(x)

\* C3 as stated: every stored element is present, not NaN and not infinite,
\* and the elements are in the order their triples were added.
C3_StoredFinite == AllStored(IsFin) /\ InOrderAdded

\* C3 amended: every stored element is present and not NaN (it may be
\* infinite), and the elements are in the order their triples were added.
C3_StoredNotNaN == AllStored(NotNaN) /\ InOrderAdded

\* two triples were admitted, the first with infinite values
C3_Witness ==
    /\ last = "add_vol"
    /\ Len(data.vol_phase_1) = 2
    /\ data.vol_phase_1[1] = Some(PInf)
    /\ data.vol_phase_3[2] = Some(F(3))

\* C4: on vectors of different length avg_std_dev_from_vectors returns the
\* length-mismatch error with both lengths, whatever the elements are.
C4_LengthMismatch ==
    (out # <<>> /\ Len(v1) # Len(v2))
    => out[1] = Err([kind |-> "LengthMismatch", n |-> Len(v1), m |-> Len(v2)])

\* lengths 3 and 2, with present values in the common prefix
C4_Witness ==
    /\ out # <<>>
    /\ Len(v1) = 3 /\ Len(v2) = 2
    /\ \A i \in 1..2 : v1[i] = Some(F(3)) /\ v2[i] = Some(F(1))

\* positions where both elements are present and v1[i] - v2[i] is not NaN
Retained ==
    {i \in 1..Len(v1) : i <= Len(v2) /\ v1[i] # None /\ v2[i] # None
                        /\ ~is_nan(FSub(v1[i][1], v2[i][1]))}

RECURSIVE RetainedSum(_)
RetainedSum(k) ==
    IF k = 0 THEN Zero
    ELSE IF k \in Retained
    THEN FAdd(RetainedSum(k - 1), FSub(v1[k][1], v2[k][1]))
    ELSE RetainedSum(k - 1)

\* C5: on equal-length vectors with at least two retained positions the result
\* is Ok, n is the number of retained positions and the mean is the sum of
\* v1[i] - v2[i] over exactly those positions divided by n.
C5_MeanAndCount ==
    (out # <<>> /\ Len(v1) = Len(v2) /\ Cardinality(Retained) >= 2)
    => /\ out[1].ok
       /\ out[1].val.n = Cardinality(Retained)
       /\ out[1].val.avg = FDiv(RetainedSum(Len(v1)), F(Cardinality(Retained)))

\* three positions, one dropped, a non-zero mean
C5_Witness ==
    /\ out # <<>>
    /\ Len(v1) = 3 /\ Len(v2) = 3
    /\ Cardinality(Retained) = 2
    /\ out[1].ok /\ out[1].val.avg = F(2)

Identity(st) == <<st.roi_name, st.phase_start, st.phase_end>>

\* C6: for the accumulators GTV, GTV_N and PTV_DP in any order and with any
\* data, dataset_to_stats returns 6 records ordered GTV 1->2, GTV 2->3,
\* GTV_N 1->2, GTV_N 2->3, PTV_DP 1->2, PTV_DP 2->3.
C6_SixSorted ==
    (pc = "write")
    => /\ stats[1].ok
       /\ Len(stats[1].val) = 6
       /\ [i \in 1..6 |-> Identity(stats[1].val[i])]
            = << <<GTV, 1, 2>>, <<GTV, 2, 3>>, <<GTV_N, 1, 2>>, <<GTV_N, 2, 3>>,
                 <<PTV_DP, 1, 2>>, <<PTV_DP, 2, 3>> >>

\* the accumulators were given in the order PTV_DP, GTV_N, GTV, with data
C6_Witness ==
    /\ pc = "write"
    /\ dataset[1].roi_name = PTV_DP /\ dataset[3].roi_name = GTV
    /\ Len(dataset[1].vol_phase_1) = 2 /\ Len(dataset[3].vol_phase_1) = 1

ExampleRecords ==
    <<MkRecord(1, RowA, Missing, Missing), MkRecord(2, RowB, Missing, Missing)>>

ExampleData ==
    (pc # "records_to_data")
    => Vols(dataset[1]) = << <<Some(F(10)), Some(F(8))>>,
                             <<Some(F(12)), Some(F(9))>>,
                             <<Some(F(11)), Some(F(10))>> >>

\* the GTV 1->2 record of the result has these values
ExampleStat(avg_vol, avg, n) ==
    (pc = "write")
    => /\ stats[1].ok
       /\ \E i \in 1..Len(stats[1].val) : Identity(stats[1].val[i]) = <<GTV, 1, 2>>
       /\ \A i \in 1..Len(stats[1].val) :
            Identity(stats[1].val[i]) = <<GTV, 1, 2>>
            => /\ stats[1].val[i].avg_vol_phase_start = avg_vol
               /\ stats[1].val[i].avg = avg
               /\ stats[1].val[i].n = n

\* C7 as stated: for the GTV rows (10,12,11) and (8,9,10) the accumulator is
\* [10,8], [12,9], [11,10] and the GTV 1->2 record has start volume 9, average
\* difference 3/2 and n = 2.
C7_ExamplePositive ==
    (records = ExampleRecords) => (ExampleData /\ ExampleStat(F(9), Fin(3, 2), 2))

\* C7 amended: the same, with average difference -3/2 (phase 1 minus phase 2).
C7_ExampleNegative ==
    (records = ExampleRecords) => (ExampleData /\ ExampleStat(F(9), Fin(-3, 2), 2))

C7_Witness == records = ExampleRecords /\ pc = "write"

\* C8: on every accumulator reached by new, add_vol and clear both statistics
\* calls return Ok, and dataset_to_stats returns Ok with 2 records for it.
C8_NoMismatch ==
    /\ (last \in {"phase_1_to_2_stat", "phase_2_to_3_stat"}) => res[1].ok
    /\ (last = "dataset_to_stats") => (res[1].ok /\ Len(res[1].val) = 2)

\* statistics taken after a clear and two accepted triples
C8_Witness ==
    /\ last = "dataset_to_stats"
    /\ Len(data.vol_phase_1) = 2
    /\ res[1].ok

\* the mean of the present values of s over its length
RECURSIVE Total(_)
Total(s) == IF s = <<>> THEN Zero ELSE FAdd(s[1][1], Total(Tail(s)))
MeanOf(s) == FDiv(Total(s), F(Len(s)))

\* C9: on a non-empty accumulator the start volume of the 1->2 record is
\* sum(vol_phase_1) / len(vol_phase_1) and that of the 2->3 record is
\* sum(vol_phase_2) / len(vol_phase_2), whatever n the differencer reports.
C9_StartVolume ==
    /\ (last = "phase_1_to_2_stat" /\ data.vol_phase_1 # <<>>)
        => res[1].ok /\ res[1].val.avg_vol_phase_start = MeanOf(data.vol_phase_1)
    /\ (last = "phase_2_to_3_stat" /\ data.vol_phase_2 # <<>>)
        => res[1].ok /\ res[1].val.avg_vol_phase_start = MeanOf(data.vol_phase_2)

\* two stored entries, of which the differencer retained one
C9_Witness ==
    /\ last = "phase_1_to_2_stat"
    /\ Len(data.vol_phase_1) = 2
    /\ res[1].ok /\ res[1].val.n = 1
    /\ IsInf(res[1].val.avg_vol_phase_start)

RoiCellsOf(rec, r) ==
    CASE r = 1 -> T3(rec.gtv_phase_i, rec.gtv_phase_ii, rec.gtv_phase_iii)
      [] r = 2 -> T3(rec.gtv_n_phase_i, rec.gtv_n_phase_ii, rec.gtv_n_phase_iii)
      [] r = 3 -> T3(rec.ptv_dp_phase_i, rec.ptv_dp_phase_ii, rec.ptv_dp_phase_iii)

\* C10: records_to_data returns the accumulators GTV, GTV_N, PTV_DP in this
\* order, each holding in record order exactly the triples of the records
\* whose three values for that ROI are present and not NaN.
C10_PerRoi ==
    (pc # "records_to_data")
    => /\ Len(dataset) = 3
       /\ [r \in 1..3 |-> dataset[r].roi_name] = <<GTV, GTV_N, PTV_DP>>
       /\ \A r \in 1..3 : \A i \in 1..3 :
            Vols(dataset[r])[i]
              = Column([k \in 1..Len(records) |-> RoiCellsOf(records[k], r)], i)

\* a record without GTV phase 2 but with all GTV_N phases: absent from GTV,
\* present in GTV_N
C10_Witness ==
    /\ pc = "dataset_to_stats"
    /\ Len(records) = 2
    /\ records[1].gtv_phase_ii = None /\ records[1].gtv_phase_i # None
    /\ RoiCellsOf(records[1], 2) = RowA
    /\ Len(dataset[1].vol_phase_1) = 1
    /\ dataset[2].vol_phase_1[1] = Some(F(10))

====
